---- MODULE Spec2Model ----
(***************************************************************************)
(* Model of contrib/msggen/msggen/rust.py: the Rust declaration generator  *)
(* of msggen.  A Python str that the code takes apart (a path, a field     *)
(* name, an enum variant) is a sequence of one-character strings; a str    *)
(* that is only compared or copied (a typename) is a TLA+ string.  Emitted *)
(* text is kept structured: a field fragment and a declaration are records *)
(* of the parts the f-strings interpolate, in the order they are written.  *)
(***************************************************************************)
EXTENDS Integers, Sequences, FiniteSets, TLC

VARIABLES service, dest, calls, runs, raised

vars == <<service, dest, calls, runs, raised>>

(* ------------------------------ bounds --------------------------------- *)
MaxMethods == 2
MaxFields == 2
MaxVariants == 2
MaxDims == 2
MaxRuns == 2

(* An optional Python value is a sequence of length at most one: None is   *)
(* the empty one (an override value, a placeholder in Enum.variants).      *)
None == <<>>

Some(x) == <<x>>

(* f"{x}" of an optional str *)
PyStr(x) == IF x = None THEN "None" ELSE x[1]

(* ------------------------------ strings -------------------------------- *)
UpperSeq == <<"A", "B", "C", "D", "E", "F", "G", "H", "I", "J", "K", "L", "M",
              "N", "O", "P", "Q", "R", "S", "T", "U", "V", "W", "X", "Y", "Z">>

LowerSeq == <<"a", "b", "c", "d", "e", "f", "g", "h", "i", "j", "k", "l", "m",
              "n", "o", "p", "q", "r", "s", "t", "u", "v", "w", "x", "y", "z">>

IsUpper(c) == \E i \in DOMAIN UpperSeq : UpperSeq[i] = c

(* str.lower() on one character *)
lower(c) ==
    IF IsUpper(c) THEN LowerSeq[CHOOSE i \in DOMAIN UpperSeq : UpperSeq[i] = c] ELSE c

(* str.replace("-", "_") *)
ReplaceDash(s) == [i \in DOMAIN s |-> IF s[i] = "-" THEN "_" ELSE s[i]]

(* re.sub(r'(?<!^)(?=[A-Z])', '_', s).lower(), from position i on *)
RECURSIVE SnakeFrom(_, _)
SnakeFrom(s, i) ==
    IF i > Len(s) THEN <<>>
    ELSE (IF i > 1 /\ IsUpper(s[i]) THEN <<"_">> ELSE <<>>)
         \o <<lower(s[i])>> \o SnakeFrom(s, i + 1)

(* str.replace("[]", "") *)
RECURSIVE StripBrackets(_)
StripBrackets(s) ==
    IF Len(s) = 0 THEN <<>>
    ELSE IF Len(s) >= 2 /\ s[1] = "[" /\ s[2] = "]" THEN StripBrackets(SubSeq(s, 3, Len(s)))
    ELSE <<s[1]>> \o StripBrackets(Tail(s))

(* s[:-2] *)
DropLast2(s) == SubSeq(s, 1, Len(s) - 2)

(* "[]" * n *)
RECURSIVE Brackets(_)
Brackets(n) == IF n = 0 THEN <<>> ELSE <<"[", "]">> \o Brackets(n - 1)

(* ------------------------------ tables --------------------------------- *)
keywords == {"in", "type"}

(* The override table, by path.  The paths are those of the field trees    *)
(* below (method M), one entry per shape of the source's table: an Enum    *)
(* path and a Composite path replaced by a hand-written type, an Array     *)
(* path replaced by a schema type that typemap maps ("string"), an Array   *)
(* path suppressed (None); and one Primitive path.                         *)
PathMo == <<"M", ".", "o">>
PathMc == <<"M", ".", "c">>
PathMp == <<"M", ".", "p">>
PathMf == <<"M", ".", "f", "[", "]">>
PathMs == <<"M", ".", "s", "[", "]">>

overrides ==
    (PathMo :> Some("ChannelState")) @@ (PathMc :> Some("ChannelSide"))
    @@ (PathMp :> Some("ChannelStateChangeCause"))
    @@ (PathMf :> Some("string")) @@ (PathMs :> None)

typemap ==
    [boolean |-> "bool", hex |-> "String", msat |-> "Amount",
     number |-> "i64", pubkey |-> "String", short_channel_id |-> "String",
     signature |-> "String", string |-> "String", txid |-> "String",
     float |-> "f32", utxo |-> "Utxo", feerate |-> "Feerate"]
    @@ ("msat|all" :> "AmountOrAll") @@ ("msat|any" :> "AmountOrAny")

(* typemap.get(t, t) *)
typemap_get(t) == IF t \in DOMAIN typemap THEN typemap[t] ELSE t

header == [kind |-> "header"]

(* -------------------------- the field model ---------------------------- *)
PrimitiveField(path, typename, required) ==
    [kind |-> "Primitive", path |-> path, typename |-> typename, required |-> required]

EnumField(path, typename, variants, required) ==
    [kind |-> "Enum", path |-> path, typename |-> typename, variants |-> variants,
     required |-> required, description |-> ""]

ArrayField(path, itemtype, dims, required) ==
    [kind |-> "Array", path |-> path, itemtype |-> itemtype, dims |-> dims,
     required |-> required]

CompositeField(path, typename, fields, required) ==
    [kind |-> "Composite", path |-> path, typename |-> typename, fields |-> fields,
     required |-> required]

Method(name, request, response) ==
    [name |-> name, request |-> request, response |-> response]

(* Field.name: the last dotted segment of the path *)
RECURSIVE LastDot(_, _)
LastDot(s, i) == IF i = 0 THEN 0 ELSE IF s[i] = "." THEN i ELSE LastDot(s, i - 1)

FieldName(path) == SubSeq(path, LastDot(path, Len(path)) + 1, Len(path))

(* FieldName.normalized(): the canonical form of a field name *)
normalized(name) == SnakeFrom(ReplaceDash(name), 1)

(* EnumVariant.normalized() *)
variant_normalized(v) == ReplaceDash(v)

(* ------------------------- normalize_varname --------------------------- *)
normalize_varname(field) ==
    [field EXCEPT !.path = SnakeFrom(ReplaceDash(field.path), 1)]

(* ------------------------- emitted text parts -------------------------- *)
NoText == <<>>

(* the type written after the colon: {'Vec<'*dims}{base}{'>'*dims},        *)
(* inside Option<...> when opt                                             *)
TypeText(base, opt, dims) == [base |-> base, opt |-> opt, dims |-> dims]

(* one field of a struct body: an optional "// Path" comment, an optional  *)
(* #[serde(<serde> = "<wire>")] attribute (skip: skip_serializing_if) and  *)
(* the line "pub <ident>: <type>,"                                         *)
Fragment(comment, serde, wire, skip, ident, type) ==
    [comment |-> comment, serde |-> serde, wire |-> wire, skip |-> skip,
     ident |-> ident, type |-> type]

(* what a gen_* call hands back: the (defi, decl) pair, the node as the    *)
(* call left it (gen_primitive rewrites paths in place), and whether the   *)
(* call raised instead of returning                                        *)
Return(defi, decl, field) == [raised |-> FALSE, defi |-> defi, decl |-> decl, field |-> field]

Raise(field) == [raised |-> TRUE, defi |-> <<>>, decl |-> <<>>, field |-> field]

(* ------------------------------ gen_enum ------------------------------- *)
NonNull(variants) == SelectSeq(variants, LAMBDA v : v # None)

EnumDecl(e) ==
    [kind |-> "enum", typename |-> e.typename, doc |-> e.description,
     variants |-> [i \in DOMAIN NonNull(e.variants) |->
                       variant_normalized(NonNull(e.variants)[i][1])],
     arms |-> [i \in DOMAIN e.variants |->
                  [index |-> i - 1, variant |-> variant_normalized(e.variants[i][1])]],
     errtype |-> e.typename]

(* gen_enum with the override check of its declaration left out *)
gen_enum_keeps_decl(e) ==
    IF \E i \in DOMAIN e.variants : e.variants[i] = None
    THEN Raise(e)
    ELSE LET over == e.path \in DOMAIN overrides
             typename == IF over THEN PyStr(overrides[e.path]) ELSE e.typename
             nm == FieldName(e.path)
             defi == IF e.required
                     THEN Fragment(e.path, "rename", nm, FALSE, normalized(nm),
                                   TypeText(typename, FALSE, 0))
                     ELSE Fragment(NoText, "none", NoText, FALSE, normalized(nm),
                                   TypeText(typename, TRUE, 0))
         IN Return(<<defi>>, <<EnumDecl(e)>>, e)

gen_enum(e) ==
    IF \E i \in DOMAIN e.variants : e.variants[i] = None
    THEN Raise(e)   \* v.normalized() on None in the TryFrom loop
    ELSE LET over == e.path \in DOMAIN overrides
             decl == IF over THEN <<>> ELSE <<EnumDecl(e)>>
             typename == IF over THEN PyStr(overrides[e.path]) ELSE e.typename
             nm == FieldName(e.path)
             defi == IF e.required
                     THEN Fragment(e.path, "rename", nm, FALSE, normalized(nm),
                                   TypeText(typename, FALSE, 0))
                     ELSE Fragment(NoText, "none", NoText, FALSE, normalized(nm),
                                   TypeText(typename, TRUE, 0))
         IN Return(<<defi>>, decl, e)

(* ---------------------------- gen_primitive ---------------------------- *)
(* gen_primitive made to take its type from the override table first *)
gen_primitive_overridden(p) ==
    LET org == FieldName(p.path)
        typename == IF p.path \in DOMAIN overrides THEN PyStr(overrides[p.path])
                    ELSE typemap_get(p.typename)
        q == normalize_varname(p)
        defi == Fragment(NoText, "alias", org, ~p.required, FieldName(q.path),
                         TypeText(typename, ~p.required, 0))
    IN Return(<<defi>>, <<>>, q)

gen_primitive(p) ==
    LET org == FieldName(p.path)
        typename == typemap_get(p.typename)
        q == normalize_varname(p)
        defi == IF p.required
                THEN Fragment(NoText, "alias", org, FALSE, FieldName(q.path),
                              TypeText(typename, FALSE, 0))
                ELSE Fragment(NoText, "alias", org, TRUE, FieldName(q.path),
                              TypeText(typename, TRUE, 0))
    IN Return(<<defi>>, <<>>, q)

(* ------------------- gen_field, gen_array, gen_composite --------------- *)
RECURSIVE gen_field(_), gen_fields(_, _)

(* gen_array from line 161 on: itemtype is the optional type name picked   *)
(* by lines 151-159, item what gen_field(a.itemtype) returned, b the node  *)
gen_array_defi(a, b, item, itemtype) ==
    IF itemtype = None THEN Return(<<>>, <<>>, b)   \* Override said not to include
    ELSE Return(<<Fragment(NoText, "alias", DropLast2(normalized(FieldName(a.path))), FALSE,
                           StripBrackets(normalized(FieldName(a.path))),
                           TypeText(typemap_get(itemtype[1]), FALSE, a.dims))>>,
                IF a.path \in DOMAIN overrides THEN <<>> ELSE item.decl,
                b)

(* gen_array from line 151 on, item being what gen_field(a.itemtype) did *)
gen_array_item(a, b, item) ==
    IF item.raised THEN Raise(b)
    ELSE IF a.path \in DOMAIN overrides THEN gen_array_defi(a, b, item, overrides[a.path])
    ELSE IF a.itemtype.kind \in {"Primitive", "Composite", "Enum"}
    THEN gen_array_defi(a, b, item, Some(a.itemtype.typename))
    ELSE Raise(b)   \* itemtype is never bound: UnboundLocalError at line 161

gen_array_call(a, item) == gen_array_item(a, [a EXCEPT !.itemtype = item.field], item)

gen_array(a) == gen_array_call(a, gen_field(a.itemtype))

(* the list fields of gen_composite once child r and the children after    *)
(* it (rest) are rendered                                                  *)
gen_fields_join(r, rest) ==
    [raised |-> rest.raised,
     rets |-> IF rest.raised THEN <<>> ELSE <<r>> \o rest.rets,
     fields |-> rest.fields]

(* the loop from child i on, r being what gen_field(fields[i]) did: the    *)
(* loop stops at the first child whose rendering raises                    *)
gen_fields_from(fields, i, r) ==
    IF r.raised
    THEN [raised |-> TRUE, rets |-> <<>>, fields |-> [fields EXCEPT ![i] = r.field]]
    ELSE gen_fields_join(r, gen_fields([fields EXCEPT ![i] = r.field], i + 1))

(* the loop "for f in c.fields: fields.append(gen_field(f))" from child i on *)
gen_fields(fields, i) ==
    IF i > Len(fields) THEN [raised |-> FALSE, rets |-> <<>>, fields |-> fields]
    ELSE gen_fields_from(fields, i, gen_field(fields[i]))

RECURSIVE JoinDefi(_), JoinDecl(_)
(* "".join([f[0] for f in fields]) *)
JoinDefi(rets) == IF Len(rets) = 0 THEN <<>> ELSE Head(rets).defi \o JoinDefi(Tail(rets))

(* "".join([f[1] for f in fields]) *)
JoinDecl(rets) == IF Len(rets) = 0 THEN <<>> ELSE Head(rets).decl \o JoinDecl(Tail(rets))

StructDecl(typename, body) == [kind |-> "struct", typename |-> typename, body |-> body]

(* gen_composite_text with the struct written before the children's text *)
gen_composite_struct_first(c, fr) ==
    IF fr.raised THEN Raise([c EXCEPT !.fields = fr.fields])
    ELSE Return(<<>>,
                <<StructDecl(c.typename, JoinDefi(fr.rets))>> \o JoinDecl(fr.rets),
                [c EXCEPT !.fields = fr.fields])

(* gen_composite from line 177 on, fr being what the loop over c.fields did *)
gen_composite_text(c, fr) ==
    IF fr.raised THEN Raise([c EXCEPT !.fields = fr.fields])
    ELSE Return(<<>>,
                JoinDecl(fr.rets) \o <<StructDecl(c.typename, JoinDefi(fr.rets))>>,
                [c EXCEPT !.fields = fr.fields])

gen_composite(c) == gen_composite_text(c, gen_fields(c.fields, 1))

gen_field(field) ==
    CASE field.kind = "Composite" -> gen_composite(field)
      [] field.kind = "Enum" -> gen_enum(field)
      [] field.kind = "Array" -> gen_array(field)
      [] field.kind = "Primitive" -> gen_primitive(field)
      [] OTHER -> Raise(field)   \* ValueError("Unmanaged type ...")

(* ---------------------------- RustGenerator ---------------------------- *)
(* one self.dest.write(raw): the text handed to write and its numindent    *)
write(text, numindent) == [text |-> text, numindent |-> numindent]

(* what one generate_* method did: the chunks written, the methods as its  *)
(* calls left them, a record of every gen_composite call made (argument    *)
(* and return), and whether it raised                                      *)
Did(r, out, methods, log) == [raised |-> r, out |-> out, methods |-> methods, log |-> log]

RECURSIVE gen_section(_, _, _)

section_entry(section, i, arg, r) ==
    [section |-> section, method |-> i, arg |-> arg,
     raised |-> r.raised, defi |-> r.defi, decl |-> r.decl]

section_join(entry, decl, rest) ==
    Did(rest.raised, <<write([kind |-> "decl", decl |-> decl], 1)>> \o rest.out,
        rest.methods, <<entry>> \o rest.log)

(* one turn of the loop: r is what gen_composite(arg) did, ms the methods  *)
(* after it                                                                *)
section_step(ms, section, i, arg, r) ==
    IF r.raised THEN Did(TRUE, <<>>, ms, <<section_entry(section, i, arg, r)>>)
    ELSE section_join(section_entry(section, i, arg, r), r.decl, gen_section(ms, section, i + 1))

section_call(methods, section, i, arg, r) ==
    section_step(IF section = "requests" THEN [methods EXCEPT ![i].request = r.field]
                 ELSE [methods EXCEPT ![i].response = r.field],
                 section, i, arg, r)

section_arg(methods, section, i, arg) == section_call(methods, section, i, arg, gen_composite(arg))

(* the loop "for meth in service.methods" of generate_requests (section    *)
(* "requests") and of generate_responses ("responses"), from method i on   *)
gen_section(methods, section, i) ==
    IF i > Len(methods) THEN Did(FALSE, <<>>, methods, <<>>)
    ELSE section_arg(methods, section, i,
                     IF section = "requests" THEN methods[i].request ELSE methods[i].response)

(* the module a section's loop s is written in; the closing brace is not   *)
(* reached when the loop raised                                            *)
section_text(name, s) ==
    Did(s.raised,
        <<write([kind |-> "mod_open", name |-> name], 0)>> \o s.out
            \o (IF s.raised THEN <<>> ELSE <<write([kind |-> "mod_close"], 0)>>),
        s.methods, s.log)

generate_requests(methods) == section_text("requests", gen_section(methods, "requests", 1))

generate_responses(methods) == section_text("responses", gen_section(methods, "responses", 1))

generate_enums(methods) ==
    <<write([kind |-> "enum_open", name |-> "Request", content |-> "params"], 0)>>
    \o [i \in DOMAIN methods |->
          write([kind |-> "variant", name |-> methods[i].name, module |-> "requests",
                 typename |-> methods[i].request.typename], 1)]
    \o <<write([kind |-> "enum_open", name |-> "Response", content |-> "result"], 0)>>
    \o [i \in DOMAIN methods |->
          write([kind |-> "variant", name |-> methods[i].name, module |-> "responses",
                 typename |-> methods[i].response.typename], 1)]
    \o <<write([kind |-> "enum_close"], 0)>>

(* generate once the requests section (req) and the responses section      *)
(* (res) are done; res is not reached when req raised                      *)
generate_join(head, req, res) ==
    IF req.raised THEN Did(TRUE, head \o req.out, req.methods, req.log)
    ELSE Did(res.raised, head \o req.out \o res.out, res.methods, req.log \o res.log)

generate_rest(head, req) == generate_join(head, req, generate_responses(req.methods))

generate(methods) ==
    generate_rest(<<write(header, 0)>> \o generate_enums(methods), generate_requests(methods))

(* ------------------------- the services loaded ------------------------- *)
Dot(path, name) == path \o <<".">> \o name

NameAB == <<"a", "-", "B">>

VariantNames == << <<"O", "P">>, <<"C", "-", "N">>, <<"C", "L">>, <<"O", "N">>, <<"A", "W">> >>

(* the variants at positions 1..n, position k (if any) a null placeholder *)
VariantList(n, k) == [i \in 1..n |-> IF i = k THEN None ELSE Some(VariantNames[i])]

Prims(P) ==
    {PrimitiveField(Dot(P, NameAB), "msat", rq) : rq \in BOOLEAN}
    \cup {PrimitiveField(Dot(P, <<"p">>), "Foo", rq) : rq \in BOOLEAN}

EnumsE(P, T) ==
    {EnumField(Dot(P, <<"e">>), T \o "E", VariantList(MaxVariants, k), rq) :
        k \in 0..MaxVariants, rq \in BOOLEAN}

EnumsO(P, T) ==
    {EnumField(Dot(P, <<"o">>), T \o "O", VariantList(MaxVariants, 0), rq) : rq \in BOOLEAN}

(* field lists of at most k fields, one field at most from each of the     *)
(* groups i.. of g (a group holds the candidates for one field name)       *)
RECURSIVE FieldLists(_, _, _)
FieldLists(g, i, k) ==
    IF i > Len(g) \/ k = 0 THEN {<<>>}
    ELSE FieldLists(g, i + 1, k)
         \cup {<<x>> \o rest : x \in g[i], rest \in FieldLists(g, i + 1, k - 1)}

(* a nested Composite at path P: its children are leaves *)
Nested(P, T) ==
    {CompositeField(P, T, fs, TRUE) :
        fs \in FieldLists(<< {PrimitiveField(Dot(P, <<"p">>), "Foo", TRUE)},
                             {EnumField(Dot(P, <<"e">>), T \o "E",
                                        VariantList(MaxVariants, 0), FALSE)} >>, 1, MaxFields)}

(* the item of an Array at path A shares the Array's path *)
Items(A, T) ==
    {PrimitiveField(A, "msat", TRUE),
     EnumField(A, T \o "Item", VariantList(MaxVariants, 0), TRUE),
     EnumField(A, T \o "Item", VariantList(MaxVariants, 1), TRUE),
     CompositeField(A, T \o "Item",
                    <<EnumField(Dot(A, <<"e">>), T \o "ItemE", VariantList(MaxVariants, 0), TRUE),
                      PrimitiveField(Dot(A, NameAB), "hex", FALSE)>>, TRUE),
     ArrayField(A \o Brackets(1), PrimitiveField(A \o Brackets(1), "hex", TRUE), 1, TRUE)}

ArraysR(P, T) ==
    {ArrayField(Dot(P, <<"r">>) \o Brackets(1), it, 1, TRUE) :
        it \in Items(Dot(P, <<"r">>) \o Brackets(1), T \o "R")}
    \cup UNION {{ArrayField(Dot(P, <<"r">>) \o Brackets(d), it, d, TRUE) :
                    it \in {x \in Items(Dot(P, <<"r">>) \o Brackets(d), T \o "R") :
                               x.kind \in {"Primitive", "Composite"}}} : d \in 2..MaxDims}
    \cup {ArrayField(Dot(P, <<"r">>) \o Brackets(1),
                     PrimitiveField(Dot(P, <<"r">>) \o Brackets(1), "msat", TRUE), 1, FALSE)}

ArraysF(P, T) ==
    {ArrayField(Dot(P, <<"f">>) \o Brackets(1), it, 1, TRUE) :
        it \in {x \in Items(Dot(P, <<"f">>) \o Brackets(1), T \o "F") : x.kind # "Enum"}}

ArraysS(P, T) ==
    {ArrayField(Dot(P, <<"s">>) \o Brackets(1), it, 1, TRUE) :
        it \in {x \in Items(Dot(P, <<"s">>) \o Brackets(1), T \o "S") :
                   x.kind \in {"Primitive", "Composite"}}}

(* the candidates for each field name of a root Composite at path P *)
Groups(P, T) ==
    << ArraysR(P, T), {x \in Prims(P) : FieldName(x.path) = NameAB},
       Nested(Dot(P, <<"c">>), T \o "C"), EnumsE(P, T), ArraysS(P, T),
       {x \in Prims(P) : FieldName(x.path) = <<"p">>}, EnumsO(P, T), ArraysF(P, T) >>

Roots(P, T) == {CompositeField(P, T, fs, TRUE) : fs \in FieldLists(Groups(P, T), 1, MaxFields)}

MethodNames == <<"M", "N", "Q", "R">>

(* the plain request of a further method *)
Plain(P, T) ==
    {CompositeField(P, T, fs, TRUE) :
        fs \in {<<>>, <<PrimitiveField(Dot(P, NameAB), "msat", FALSE)>>}}

(* the methods i..n of a Service: plain requests and empty responses, but  *)
(* for the first method of a full-sized Service, whose response is of any  *)
(* shape                                                                   *)
RECURSIVE Methods(_, _)
Methods(i, n) ==
    IF i > n THEN {<<>>}
    ELSE LET nm == MethodNames[i]
             reqs == IF i = 1 THEN Plain(<<nm>>, nm \o "Request")
                     ELSE {CompositeField(<<nm>>, nm \o "Request", <<>>, TRUE)}
             ress == IF i = 1 /\ n = MaxMethods THEN Roots(<<nm>>, nm \o "Response")
                     ELSE {CompositeField(<<nm>>, nm \o "Response", <<>>, TRUE)}
         IN {<<Method(nm, rq, rs)>> \o rest :
                rq \in reqs, rs \in ress, rest \in Methods(i + 1, n)}

Services == UNION {Methods(1, n) : n \in 0..MaxMethods}

(* ---------------------------- the behaviour ---------------------------- *)
Init ==
    /\ service \in Services
    /\ dest = <<>>
    /\ calls = <<>>
    /\ runs = 0
    /\ raised = FALSE

(* RustGenerator(dest).generate(service); an exception ends the program *)
Generated(g) ==
    /\ service' = g.methods
    /\ dest' = dest \o g.out
    /\ calls' = calls \o [i \in DOMAIN g.log |-> g.log[i] @@ [run |-> runs + 1]]
    /\ raised' = g.raised
    /\ runs' = runs + 1

Generate ==
    /\ runs < MaxRuns
    /\ ~raised
    /\ Generated(generate(service))

Next == Generate

Spec == Init /\ [][Next]_vars

(* ------------------------ reading trees and text ----------------------- *)
Overridden(path) == path \in DOMAIN overrides

(* an override entry whose value is None *)
Suppressed(path) == Overridden(path) /\ overrides[path] = None

(* a node and all the nodes below it *)
RECURSIVE Nodes(_)
Nodes(n) ==
    {n} \cup (CASE n.kind = "Composite" -> UNION {Nodes(n.fields[i]) : i \in DOMAIN n.fields}
                [] n.kind = "Array" -> Nodes(n.itemtype)
                [] OTHER -> {})

(* the gen_composite calls that returned *)
Returned == {calls[i] : i \in {j \in DOMAIN calls : ~calls[j].raised}}

DeclNames(decl) == {decl[i].typename : i \in DOMAIN decl}

TypeNames(decl) == [i \in DOMAIN decl |-> decl[i].typename]

(* the struct declarations of decl that the Composite n gave rise to *)
StructsOf(decl, n) ==
    {decl[i] : i \in {j \in DOMAIN decl : decl[j].kind = "struct" /\ decl[j].typename = n.typename}}

(* the identifier a child's field line is written under *)
IdentOf(f) ==
    IF f.kind = "Primitive" THEN FieldName(SnakeFrom(ReplaceDash(f.path), 1))
    ELSE StripBrackets(SnakeFrom(ReplaceDash(FieldName(f.path)), 1))

(* the field lines of body written for the child f *)
LinesOf(body, f) == {body[i] : i \in {j \in DOMAIN body : body[j].ident = IdentOf(f)}}

(* n lies in the item subtree of an Array of tree whose path is overridden *)
UnderOverriddenArray(tree, n) ==
    \E a \in Nodes(tree) : a.kind = "Array" /\ Overridden(a.path) /\ n \in Nodes(a.itemtype)

(* the Composites of a call's argument with their struct in the returned text *)
Structs(c) ==
    {<<n, d>> \in {n \in Nodes(c.arg) : n.kind = "Composite"} \X {c.decl[i] : i \in DOMAIN c.decl} :
        d.kind = "struct" /\ d.typename = n.typename}

(* ------------------------------- C1 ------------------------------------ *)
(* C1 (as claimed): for every node (Composite, Array or Enum) whose path   *)
(* has an override entry, the returned declarations hold none for the node *)
(* itself, and hold the declaration of every Composite or Enum below it    *)
(* whose own path has no entry.                                            *)
C1_OverrideKeepsDescendants ==
    \A c \in Returned : \A n \in Nodes(c.arg) :
        (n.kind \in {"Composite", "Array", "Enum"} /\ Overridden(n.path)) =>
            /\ n.kind # "Array" => n.typename \notin DeclNames(c.decl)
            /\ \A d \in Nodes(n) \ {n} :
                  (d.kind \in {"Composite", "Enum"} /\ ~Overridden(d.path))
                      => d.typename \in DeclNames(c.decl)

(* C1 (amended): an Enum's declaration is returned exactly when neither    *)
(* its own path has an override entry nor it lies below an Array whose     *)
(* path has one; an overridden Array discards every declaration of its     *)
(* item subtree; a Composite never consults the override table, so its     *)
(* struct is returned exactly when it lies below no overridden Array.      *)
C1_OverrideDropsDeclarations ==
    \A c \in Returned : \A n \in Nodes(c.arg) :
        /\ n.kind = "Enum" =>
              (n.typename \in DeclNames(c.decl)
                  <=> (~Overridden(n.path) /\ ~UnderOverriddenArray(c.arg, n)))
        /\ n.kind = "Composite" =>
              (n.typename \in DeclNames(c.decl) <=> ~UnderOverriddenArray(c.arg, n))

(* C1 witness: a returned call whose tree holds an overridden Enum, an     *)
(* overridden Composite whose struct is returned, and an overridden Array  *)
(* with an Enum below it whose own path has no entry.                      *)
C1_Witness ==
    \E c \in Returned :
        /\ \E n \in Nodes(c.arg) : n.kind = "Composite" /\ Overridden(n.path)
                                   /\ n.typename \in DeclNames(c.decl)
        /\ \E a \in Nodes(c.arg) : a.kind = "Array" /\ Overridden(a.path)
              /\ \E d \in Nodes(a.itemtype) : d.kind = "Enum" /\ ~Overridden(d.path)

(* ------------------------------- C2 ------------------------------------ *)
(* C2: the struct body of every Composite holds one field line per child   *)
(* that no None override suppresses, in the order of c.fields, whatever    *)
(* the child's variant.                                                    *)
Unsuppressed(fields) == SelectSeq(fields, LAMBDA f : ~Suppressed(f.path))

C2_FragmentPerChild ==
    \A c \in Returned : \A s \in Structs(c) :
        [i \in DOMAIN s[2].body |-> s[2].body[i].ident]
            = [i \in DOMAIN Unsuppressed(s[1].fields) |-> IdentOf(Unsuppressed(s[1].fields)[i])]

(* ------------------------------- C3 ------------------------------------ *)
(* C3: for every Enum without an override, null placeholders included,     *)
(* gen_enum completes and the conversion helper is positional: one arm     *)
(* i => variant i for each non-null position i, no arm for a null          *)
(* position, and an error arm naming the enum type.                        *)
C3_EnumHelperPositional ==
    \A i \in DOMAIN calls : \A e \in Nodes(calls[i].arg) :
        (e.kind = "Enum" /\ ~Overridden(e.path)) =>
            LET r == gen_enum(e)
            IN /\ ~r.raised
               /\ Len(r.decl) = 1
               /\ r.decl[1].errtype = e.typename
               /\ {<<a.index, a.variant>> : a \in {r.decl[1].arms[k] : k \in DOMAIN r.decl[1].arms}}
                    = {<<k - 1, ReplaceDash(e.variants[k][1])>> :
                          k \in {j \in DOMAIN e.variants : e.variants[j] # None}}

(* ------------------------------- C4 ------------------------------------ *)
(* the schema typename of a child: its own, or its item's for an Array     *)
SchemaType(f) == IF f.kind = "Array" THEN f.itemtype.typename ELSE f.typename

InTypemap(t) == t \in DOMAIN typemap

(* C4 (as claimed): the override table is checked first: a Primitive, Enum *)
(* or Array child whose path has a non-suppress entry is written with      *)
(* exactly the entry's value as its type name; without an entry the schema *)
(* typename is mapped by the typemap, or used unchanged when absent.       *)
C4_OverrideFirst ==
    \A c \in Returned : \A s \in Structs(c) : \A i \in DOMAIN s[1].fields :
        LET f == s[1].fields[i]
        IN f.kind \in {"Primitive", "Enum", "Array"} =>
            \A l \in LinesOf(s[2].body, f) :
                IF Overridden(f.path)
                THEN overrides[f.path] # None => l.type.base = overrides[f.path][1]
                ELSE l.type.base = (IF InTypemap(SchemaType(f)) THEN typemap[SchemaType(f)]
                                    ELSE SchemaType(f))

(* C4 (amended): only Enum and Array children consult the override table.  *)
(* An Enum is written with its entry's value, or with its own typename     *)
(* when it has none.  An Array takes its item type name from its entry,    *)
(* or else from its itemtype, and that name is then mapped by the typemap  *)
(* (an entry "string" is written "String") and kept only when absent from  *)
(* it.  A Primitive ignores any entry: its schema typename is mapped by    *)
(* the typemap, or kept when absent.                                       *)
C4_TypeResolution ==
    \A c \in Returned : \A s \in Structs(c) : \A i \in DOMAIN s[1].fields :
        LET f == s[1].fields[i]
        IN \A l \in LinesOf(s[2].body, f) :
            LET picked == IF f.kind \in {"Enum", "Array"} /\ Overridden(f.path)
                          THEN overrides[f.path][1] ELSE SchemaType(f)
            IN l.type.base = (IF f.kind = "Enum" THEN picked
                              ELSE IF InTypemap(picked) THEN typemap[picked] ELSE picked)

(* C4 witness: a returned struct with a Primitive child and an Array       *)
(* child, both at overridden paths, the Array's entry a typemap key.       *)
C4_Witness ==
    \E c \in Returned : \E s \in Structs(c) :
        /\ \E i \in DOMAIN s[1].fields :
              /\ s[1].fields[i].kind = "Primitive" /\ Overridden(s[1].fields[i].path)
              /\ LinesOf(s[2].body, s[1].fields[i]) # {}
        /\ \E i \in DOMAIN s[1].fields :
              /\ s[1].fields[i].kind = "Array" /\ Overridden(s[1].fields[i].path)
              /\ \E l \in LinesOf(s[2].body, s[1].fields[i]) :
                    InTypemap(overrides[s[1].fields[i].path][1])

(* ------------------------------- C5 ------------------------------------ *)
(* C5: the type of a child's field line is wrapped in Option<...> if and   *)
(* only if the child's required flag is false.                             *)
C5_OptionalIffNotRequired ==
    \A c \in Returned : \A s \in Structs(c) : \A i \in DOMAIN s[1].fields :
        \A l \in LinesOf(s[2].body, s[1].fields[i]) :
            l.type.opt <=> ~s[1].fields[i].required

(* ------------------------------- C6 ------------------------------------ *)
(* C6: every field line carries a serde alias or rename whose value is the *)
(* child's schema name before normalization (an Array's taken without its  *)
(* "[]" marks).                                                            *)
C6_AliasIsSchemaName ==
    \A c \in Returned : \A s \in Structs(c) : \A i \in DOMAIN s[1].fields :
        \A l \in LinesOf(s[2].body, s[1].fields[i]) :
            /\ l.serde \in {"alias", "rename"}
            /\ StripBrackets(l.wire) = StripBrackets(FieldName(s[1].fields[i].path))

(* ------------------------------- C7 ------------------------------------ *)
Kinds(out) == [i \in DOMAIN out |-> out[i].text.kind]

Repeat(x, n) == [i \in 1..n |-> x]

(* C7: generate writes, for any Service, the header, the Request enum with *)
(* one variant per Method in order, the Response enum likewise, the        *)
(* requests section with one declaration text per Method in order, then    *)
(* the responses section likewise.                                         *)
C7_OutputOrder ==
    runs = 1 =>
        LET n == Len(service)
        IN /\ ~raised
           /\ Kinds(dest) = <<"header", "enum_open">> \o Repeat("variant", n)
                            \o <<"enum_open">> \o Repeat("variant", n)
                            \o <<"enum_close", "mod_open">> \o Repeat("decl", n)
                            \o <<"mod_close", "mod_open">> \o Repeat("decl", n)
                            \o <<"mod_close">>
           /\ \A i \in 1..n :
                 /\ dest[2 + i].text.name = service[i].name
                 /\ dest[2 + i].text.typename = service[i].request.typename
                 /\ dest[3 + n + i].text.name = service[i].name
                 /\ dest[3 + n + i].text.typename = service[i].response.typename
                 /\ dest[5 + 2 * n + i].text.decl[Len(dest[5 + 2 * n + i].text.decl)].typename
                        = service[i].request.typename
                 /\ dest[7 + 3 * n + i].text.decl[Len(dest[7 + 3 * n + i].text.decl)].typename
                        = service[i].response.typename

(* ------------------------------- C8 ------------------------------------ *)
(* C8: two generate runs in a row on the same Service object write the     *)
(* same text both times.                                                   *)
C8_SecondRunIdentical ==
    (runs = 2 /\ ~raised) =>
        SubSeq(dest, 1, Len(dest) \div 2) = SubSeq(dest, Len(dest) \div 2 + 1, Len(dest))

(* ------------------------------- C9 ------------------------------------ *)
(* the declaring nodes of a tree in depth-first post-order *)
RECURSIVE PostOrder(_), PostOrderAll(_)
PostOrder(n) ==
    CASE n.kind = "Composite" -> PostOrderAll(n.fields) \o <<n.typename>>
      [] n.kind = "Enum" -> <<n.typename>>
      [] n.kind = "Array" -> PostOrder(n.itemtype)
      [] OTHER -> <<>>

PostOrderAll(fields) ==
    IF Len(fields) = 0 THEN <<>> ELSE PostOrder(Head(fields)) \o PostOrderAll(Tail(fields))

(* C9: in the text gen_composite returns, the declarations of a            *)
(* Composite's children and of all their descendants come before the       *)
(* Composite's own struct, the children's in the order of c.fields: the    *)
(* declarations returned are in depth-first post-order.                    *)
C9_PostOrder ==
    \A c \in Returned :
        /\ c.decl[Len(c.decl)].typename = c.arg.typename
        /\ TypeNames(c.decl)
             = SelectSeq(PostOrder(c.arg), LAMBDA t : t \in DeclNames(c.decl))

(* C9 witness: a returned text with the enum of a grandchild, then the     *)
(* struct of the child that holds it, then a later child's declaration,    *)
(* then the Composite's own struct.                                        *)
C9_Witness ==
    \E c \in Returned :
        /\ Len(c.decl) >= 4
        /\ c.decl[1].kind = "enum"
        /\ c.decl[2].kind = "struct"
        /\ \E n \in Nodes(c.arg) : n.kind = "Composite" /\ n.typename = c.decl[2].typename
              /\ \E i \in DOMAIN n.fields : n.fields[i].kind = "Enum"
                                            /\ n.fields[i].typename = c.decl[1].typename

(* ------------------------------- C10 ----------------------------------- *)
(* C10: for every Array with no override entry, whichever of the four      *)
(* variants its itemtype is, gen_array returns: its field line wraps the   *)
(* resolved item type in dims Vec<...> and its declarations are those of   *)
(* rendering the itemtype.                                                 *)
C10_ArrayAlwaysReturns ==
    \A i \in DOMAIN calls : \A a \in Nodes(calls[i].arg) :
        (a.kind = "Array" /\ ~Overridden(a.path)) =>
            LET r == gen_array(a)
            IN /\ ~r.raised
               /\ Len(r.defi) = 1
               /\ r.defi[1].type.dims = a.dims
               /\ r.decl = gen_field(a.itemtype).decl

====
